---- MODULE Spec2Model ----
(***************************************************************************)
(* Model of the chat view of the frontend (ChatPage, src/unnamed/part_001  *)
(* lines 190-460) together with the streaming client getAiReplyStream and  *)
(* sendMessage of src/frontend/src/services/apiService.js.                 *)
(*                                                                         *)
(* A JavaScript string is a sequence of code points (<<>> is '').  A body  *)
(* chunk handed out by reader.read() is a sequence of bytes.  Every        *)
(* stretch of handler code between two awaits is one action; React state   *)
(* updates are applied in the order they are queued.  The backend (not     *)
(* part of the frontend sources) is the messages table behind its two      *)
(* endpoints.  A run has at most MaxTurns accepted sends, MaxReads body    *)
(* chunks, MaxConvs conversations, MaxFetches message-list fetches in      *)
(* flight at a time and MaxFaults failed requests.                         *)
(***************************************************************************)
EXTENDS Integers, Sequences, FiniteSets, TLC

\* ---------------------------------------------------------------- bounds
MaxTurns == 2
MaxReads == 2
MaxConvs == 2
MaxFetches == 1
MaxFaults == 1
MaxSubmits == 3
MaxRacing == 2

\* ------------------------------------------------------- input alphabets
\* 'a', and the two bytes of the UTF-8 encoding of U+00E9
ByteA == 97
ByteLead == 195
ByteCont == 169
CharEAcute == 233
ReplacementChar == 65533
CharSpace == 32
CharH == 104

ReadValues == {<<ByteA, ByteLead>>, <<ByteCont>>}
InputTexts == {<<>>, <<CharSpace>>, <<CharH>>}

ConvIds == 1..MaxConvs
NoConv == 0
TurnIds == 1..MaxTurns

\* ----------------------------------------------------------- error texts
ErrLoadMessages == "Could not load messages for this conversation."
ErrNewChat == "Could not start a new chat."
ErrLoadConversations == "Could not load conversation list."
ErrSaveAi == "Error saving AI response. The conversation might be out of sync."
ErrStream == "AI Connection Error"
ErrSend == "Failed to send message."

VARIABLES
  currentUser,            \* ChatPage prop: TRUE once App has loaded the user
  paramConvId,            \* useParams(): the conversation id of the URL
  conversations,          \* useState([]): ids listed in the sidebar
  currentConversationId,  \* useState(paramConvId)
  messages,               \* useState([])
  newMessage,             \* useState('')
  isLoading,              \* useState(false)
  error,                  \* useState('')
  pendingFetches,         \* conversation id -> fetchMessages calls awaiting getConversationDetails
  turns,                  \* one record per call of handleSendMessage that passed its guard
  convs,                  \* backend: conversations that exist
  db,                     \* backend: the messages table, in insertion order
  clock,                  \* backend: timestamp given to the last stored message
  faults,                 \* history: number of requests that have failed so far
  submits,                \* history: submit events handled by handleSendMessage
  rejections,             \* history: why handleSendMessage returned at its first line
  token,                  \* App: useState(localStorage.getItem('token'))
  lsToken,                \* localStorage item 'token'
  authHeader,             \* apiClient.defaults.headers.common['Authorization']
  loading,                \* App: useState(true)
  location,               \* the router's current path
  username,               \* LoginPage / SignupPage: useState('')
  password,               \* LoginPage / SignupPage: useState('')
  formError,              \* LoginPage / SignupPage: the error state of the page
  handleSubmit,           \* the handleSubmit call of a page that is awaiting the backend
  users,                  \* backend: the accounts, as <<username, password>>
  userFetch,              \* getCurrentUser requests awaiting their response
  issued,                 \* history: the protected requests sent by the last step that sent any
  tokenFrom,              \* history: what put the token into App state
  config,                 \* gateway: the nginx configuration the container runs
  backendUp,              \* the backend service is reachable
  relayUp,                \* the relay (AI agent) service is reachable
  uri,                    \* gateway: the path of the last request
  response,               \* gateway: the answer to the last request
  callbacks,              \* a call of getAiReplyStream on its own: what its callbacks do
  call                    \* that call: its position and what it has called so far

chatVars == <<currentUser, paramConvId, conversations, currentConversationId, messages,
              newMessage, isLoading, error, pendingFetches, turns, convs, db, clock, faults>>

submitVars == <<submits, rejections>>

appVars == <<token, lsToken, authHeader, loading, location, username, password, formError,
             handleSubmit, users, userFetch, issued, tokenFrom>>

gatewayVars == <<config, backendUp, relayUp, uri, response>>

streamVars == <<callbacks, call>>

\* what no step of the chat page touches
outsideChat == <<appVars, gatewayVars, streamVars>>

\* what no step of a chat turn touches
otherVars == <<submitVars, outsideChat>>

vars == <<chatVars, otherVars>>

\* ------------------------------------------------------------- helpers
RECURSIVE SeqSum(_)
SeqSum(s) == IF s = <<>> THEN 0 ELSE Head(s) + SeqSum(Tail(s))

RECURSIVE Concat(_)
Concat(ss) == IF ss = <<>> THEN <<>> ELSE Head(ss) \o Concat(Tail(ss))

\* String.prototype.trim on the modelled alphabet
RECURSIVE TrimLeft(_)
TrimLeft(s) == IF s # <<>> /\ Head(s) = CharSpace THEN TrimLeft(Tail(s)) ELSE s

RECURSIVE TrimRight(_)
TrimRight(s) == IF s # <<>> /\ s[Len(s)] = CharSpace
                THEN TrimRight(SubSeq(s, 1, Len(s) - 1)) ELSE s

Trim(s) == TrimRight(TrimLeft(s))

\* TextDecoder('utf-8').decode(value, {stream: true}): pend is TRUE when the
\* decoder holds a lead byte whose continuation has not arrived yet.
RECURSIVE DecodeFrom(_, _, _)
DecodeFrom(bytes, pend, out) ==
  IF bytes = <<>> THEN [text |-> out, pend |-> pend]
  ELSE LET b == Head(bytes)
           flush == IF pend THEN <<ReplacementChar>> ELSE <<>>
       IN IF b < 128 THEN DecodeFrom(Tail(bytes), FALSE, out \o flush \o <<b>>)
          ELSE IF b = ByteLead THEN DecodeFrom(Tail(bytes), TRUE, out \o flush)
          ELSE IF pend THEN DecodeFrom(Tail(bytes), FALSE, out \o <<CharEAcute>>)
          ELSE DecodeFrom(Tail(bytes), FALSE, out \o <<ReplacementChar>>)

DecodeStream(value, pend) == DecodeFrom(value, pend, <<>>)

\* ids of the optimistic entries of turn t (`temp-user-${Date.now()}`)
TempUserId(t) == <<"temp-user", t>>
TempAiId(t) == <<"temp-ai", t>>
DbId(n) == <<"db", n>>

\* ------------------------------------------------------ backend boundary
\* POST /conversations/{id}/messages/: the record the backend stores and returns
StoredMessage(c, content, sender, ts) ==
  [id |-> DbId(Len(db) + 1), content |-> content, sender |-> sender,
   timestamp |-> ts, conversation_id |-> c, isStreaming |-> FALSE]

\* Array.prototype.sort((a,b) => new Date(a.timestamp) - new Date(b.timestamp)):
\* a stable ascending sort
RECURSIVE InsertByTimestamp(_, _)
InsertByTimestamp(sorted, m) ==
  IF sorted = <<>> THEN <<m>>
  ELSE IF sorted[Len(sorted)].timestamp <= m.timestamp THEN Append(sorted, m)
  ELSE Append(InsertByTimestamp(SubSeq(sorted, 1, Len(sorted) - 1), m), sorted[Len(sorted)])

RECURSIVE SortByTimestamp(_)
SortByTimestamp(s) ==
  IF s = <<>> THEN <<>>
  ELSE InsertByTimestamp(SortByTimestamp(SubSeq(s, 1, Len(s) - 1)), s[Len(s)])

\* GET /conversations/{id}: the messages of conversation c
ConversationMessages(c) == SelectSeq(db, LAMBDA m : m.conversation_id = c)

\* ------------------------------------------------------ effects of ChatPage
PendingTotal(f) == SeqSum([i \in 1..MaxConvs |-> f[i]])

AsyncBudget == PendingTotal(pendingFetches) < MaxFetches

\* a request fails (ok = FALSE) or not
Outcome(ok) == /\ ~ok => faults < MaxFaults
               /\ faults' = IF ok THEN faults ELSE faults + 1

\* useEffect(..., [currentUser, paramConvId, navigate]): fetchConversations, whose
\* response is taken to arrive before the next event, so that the paramConvId it
\* captured is still the current one and setCurrentConversationId(paramConvId)
\* changes nothing.  After a navigation the sidebar already lists every
\* conversation, so only the run started by the arrival of currentUser is an
\* action of its own.
FetchConversations(ok) ==
  IF ok THEN conversations' = convs ELSE conversations' = conversations

\* useEffect(..., [currentConversationId]) when it runs with a conversation c:
\* fetchMessages up to its await
StartFetchMessages(c) ==
  /\ isLoading' = TRUE
  /\ error' = ""
  /\ pendingFetches' = [pendingFetches EXCEPT ![c] = @ + 1]

\* ------------------------------------------------------------ the state
\* a turn that calls the relay without awaiting the write of the user's message
NewTurnStreamsAtOnce(c, content) ==
  [conv |-> c, content |-> content, pc |-> "fetch", pend |-> FALSE, reads |-> 0,
   values |-> <<>>, delivered |-> <<>>, onComplete |-> 0, onError |-> 0,
   streamFailed |-> FALSE, finalAiContent |-> <<>>, aiRequests |-> 0, aiWrite |-> "none",
   userMsgId |-> 0, aiMsgId |-> 0, reenabled |-> FALSE, relayRequests |-> 1,
   failWhy |-> "none"]

NewTurn(c, content) ==
  [conv |-> c, content |-> content, pc |-> "sendUser", pend |-> FALSE, reads |-> 0,
   values |-> <<>>, delivered |-> <<>>, onComplete |-> 0, onError |-> 0,
   streamFailed |-> FALSE, finalAiContent |-> <<>>, aiRequests |-> 0, aiWrite |-> "none",
   userMsgId |-> 0, aiMsgId |-> 0, reenabled |-> FALSE, relayRequests |-> 0,
   failWhy |-> "none"]

\* ------------------------------------------- App, LoginPage and SignupPage
\* the value of an absent token (null) and of an absent header
NoToken == 0
NoHeader == <<>>
NoCredentials == <<>>

Usernames == {"ann", "bob"}

\* passwords of five and of six characters
PwShort == <<CharH, CharH, CharH, CharH, CharH>>
PwGood == <<CharH, CharH, CharH, CharH, CharH, CharH>>
PwOther == <<CharH, CharH, CharH, CharH, CharH, CharSpace>>
Passwords == {PwShort, PwGood, PwOther}

MinPasswordLen == 6

ErrPasswordShort == "Password must be at least 6 characters long."
ErrLoginDefault == "Login failed. Please check your credentials."
ErrSignupDefault == "Signup failed. Please try again."

\* err.response.data.detail as the backend words it, "" when the error has none
DetailText == "detail"
Details == {"", DetailText}

\* backend: the access token issued to an account, and one it no longer accepts
TokenOf(u) == IF u = "ann" THEN 1 ELSE 2
ExpiredToken == 3

\* setAuthToken(t): the Authorization header of apiClient afterwards
SetAuthToken(t) == IF t # NoToken THEN <<"Bearer", t>> ELSE NoHeader

\* backend: a request with this Authorization header passes the bearer check
Authorized(header) ==
  /\ header # NoHeader
  /\ header[1] = "Bearer"
  /\ \E acc \in users : header[2] = TokenOf(acc[1])

\* the getCurrentUser requests there can be: the token whose effect sent it and
\* the header it carries
UserFetches ==
  [tok : {TokenOf(u) : u \in Usernames} \cup {ExpiredToken},
   auth : {SetAuthToken(TokenOf(u)) : u \in Usernames} \cup {SetAuthToken(ExpiredToken)}]

\* no handleSubmit call is running
IdleSubmit ==
  [pc |-> "idle", page |-> "none", username |-> "", password |-> <<>>, mounted |-> FALSE,
   sentSignup |-> NoCredentials, sentLogin |-> NoCredentials, outcome |-> "none",
   detail |-> "", calledBack |-> FALSE, navigated |-> FALSE]

\* a record of the history variable issued
Request(kind, header, tok, ls, from) ==
  [kind |-> kind, auth |-> header, tok |-> tok, ls |-> ls, from |-> from]

\* a gateway that has answered no request yet
NoResponse == [status |-> 0, body |-> "", by |-> "none"]

GatewayIdle ==
  /\ config = "nginx.conf"
  /\ backendUp = TRUE
  /\ relayUp = TRUE
  /\ uri = <<>>
  /\ response = NoResponse

\* no call of getAiReplyStream outside the chat page
NoCall ==
  [pc |-> "none", pend |-> FALSE, delivered |-> <<>>, onChunk |-> 0, onComplete |-> 0,
   onError |-> 0, onChunkAfterEnd |-> 0, rejected |-> FALSE]

StreamIdle ==
  /\ callbacks = [onChunkThrowsAt |-> 0, onCompleteThrows |-> FALSE,
                  onErrorThrows |-> FALSE]
  /\ call = NoCall

\* App with a signed-in user showing the chat page
AppSignedIn ==
  /\ users = {<<"ann", PwGood>>}
  /\ token = TokenOf("ann")
  /\ lsToken = token
  /\ authHeader = SetAuthToken(token)
  /\ loading = FALSE
  /\ location = "/chat"
  /\ username = ""
  /\ password = <<>>
  /\ formError = ""
  /\ handleSubmit = IdleSubmit
  /\ userFetch = {}
  /\ issued = {}
  /\ tokenFrom = "storage"

Init ==
  /\ currentUser \in BOOLEAN
  /\ convs = {1}
  /\ paramConvId \in {NoConv} \cup convs
  /\ conversations = IF currentUser THEN convs ELSE {}
  /\ currentConversationId = paramConvId
  /\ messages = <<>>
  /\ newMessage = <<>>
  /\ error = ""
  /\ isLoading = (paramConvId # NoConv)
  /\ pendingFetches = [c \in ConvIds |-> IF c = paramConvId THEN 1 ELSE 0]
  /\ turns = <<>>
  /\ db = <<>>
  /\ clock = 0
  /\ faults = 0
  /\ submits = 0
  /\ rejections = {}
  /\ AppSignedIn
  /\ GatewayIdle
  /\ StreamIdle

\* ------------------------------------------------------------- actions
\* App's fetchUser effect delivers the user to the mounted page
CurrentUserLoaded(ok) ==
  /\ Outcome(ok)
  /\ ~currentUser
  /\ currentUser' = TRUE
  /\ FetchConversations(ok)
  /\ error' = IF ok THEN error ELSE ErrLoadConversations
  /\ UNCHANGED <<paramConvId, currentConversationId, messages, newMessage, isLoading,
                 pendingFetches, turns, convs, db, clock>>
  /\ UNCHANGED otherVars

\* handleSendMessage or one of its callbacks still has code to run for turn r
InProgress(r) == r.pc \in {"sendUser", "fetch", "read", "sendAi"}

\* fetchMessages after its await
FetchMessagesDone(c, ok) ==
  /\ Outcome(ok)
  /\ pendingFetches[c] > 0
  /\ pendingFetches' = [pendingFetches EXCEPT ![c] = @ - 1]
  /\ IF ok
     THEN /\ messages' = SortByTimestamp(ConversationMessages(c))
          /\ error' = error
     ELSE /\ error' = ErrLoadMessages
          /\ messages' = messages
  /\ isLoading' = FALSE
  /\ turns' = [t \in 1..Len(turns) |->
                 IF InProgress(turns[t]) THEN [turns[t] EXCEPT !.reenabled = TRUE]
                 ELSE turns[t]]
  /\ UNCHANGED <<currentUser, paramConvId, conversations, currentConversationId,
                 newMessage, convs, db, clock>>
  /\ UNCHANGED otherVars

\* handleNewConversation, from the click to the end of the handler
HandleNewConversation(ok) ==
  /\ Outcome(ok)
  /\ AsyncBudget
  /\ IF ok
     THEN /\ convs # ConvIds
          /\ LET newConv == CHOOSE c \in ConvIds \ convs : \A d \in ConvIds \ convs : c <= d
             IN /\ convs' = convs \cup {newConv}
                /\ conversations' = conversations \cup {newConv}
                /\ paramConvId' = newConv
                /\ currentConversationId' = newConv
                /\ messages' = <<>>
                /\ StartFetchMessages(newConv)
     ELSE /\ error' = ErrNewChat
          /\ UNCHANGED <<convs, conversations, paramConvId, currentConversationId,
                         messages, isLoading, pendingFetches>>
  /\ UNCHANGED <<currentUser, newMessage, turns, db, clock>>
  /\ UNCHANGED otherVars

\* switchConversation(convId) with the effect it triggers, up to the await
SwitchConversationTo(convId) ==
  /\ Outcome(TRUE)
  /\ convId \in conversations
  /\ convId # currentConversationId
  /\ currentConversationId' = convId
  /\ paramConvId' = convId
  /\ StartFetchMessages(convId)
  /\ UNCHANGED <<currentUser, conversations, messages, newMessage, turns, convs, db,
                 clock>>
  /\ UNCHANGED otherVars

\* switchConversation(convId), a click on a sidebar entry
SwitchConversation(convId) ==
  /\ AsyncBudget
  /\ SwitchConversationTo(convId)

\* an input that isLoading does not disable
InputEnabledWhileLoading == currentConversationId # NoConv

\* the chat form is rendered and the input is enabled
InputEnabled == currentConversationId # NoConv /\ ~isLoading

\* onChange of the input
SetNewMessage(text) ==
  /\ Outcome(TRUE)
  /\ InputEnabled
  /\ text # newMessage
  /\ newMessage' = text
  /\ UNCHANGED <<currentUser, paramConvId, conversations, currentConversationId, messages,
                 isLoading, error, pendingFetches, turns, convs, db,
                 clock>>
  /\ UNCHANGED otherVars

\* the submit button is enabled
SubmitEnabled == InputEnabled /\ Trim(newMessage) # <<>>

UserMessageForDisplay(t) ==
  [id |-> TempUserId(t), content |-> newMessage, sender |-> "user", timestamp |-> 0,
   conversation_id |-> currentConversationId, isStreaming |-> FALSE]

AiMessagePlaceholder(t) ==
  [id |-> TempAiId(t), content |-> <<>>, sender |-> "ai", timestamp |-> 0,
   conversation_id |-> currentConversationId, isStreaming |-> TRUE]

\* a test of the text that does not trim it
SendRejectedNoTrim == newMessage = <<>> \/ currentConversationId = NoConv \/ ~currentUser

\* if (!newMessage.trim() || !currentConversationId || !currentUser) return;
SendRejected == Trim(newMessage) = <<>> \/ currentConversationId = NoConv \/ ~currentUser

\* a handler that shows the placeholder above the user's message
SendMessageBodyPlaceholderFirst ==
  IF SendRejected
  THEN UNCHANGED chatVars
  ELSE LET t == Len(turns) + 1
       IN /\ newMessage' = <<>>
          /\ messages' = messages \o <<AiMessagePlaceholder(t), UserMessageForDisplay(t)>>
          /\ isLoading' = TRUE
          /\ error' = ""
          /\ turns' = Append(turns, NewTurn(currentConversationId, newMessage))
          /\ UNCHANGED <<currentUser, paramConvId, conversations,
                         currentConversationId, pendingFetches,
                         convs, db, clock, faults>>

\* handleSendMessage from its first line to its first await
SendMessageBody ==
  IF SendRejected
  THEN UNCHANGED chatVars
  ELSE LET t == Len(turns) + 1
       IN /\ newMessage' = <<>>
          /\ messages' = messages \o <<UserMessageForDisplay(t), AiMessagePlaceholder(t)>>
          /\ isLoading' = TRUE
          /\ error' = ""
          /\ turns' = Append(turns, NewTurn(currentConversationId, newMessage))
          /\ UNCHANGED <<currentUser, paramConvId, conversations,
                         currentConversationId, pendingFetches,
                         convs, db, clock, faults>>

\* handleSendMessage, run by a click on the enabled submit button
HandleSendMessage ==
  /\ SubmitEnabled
  /\ Len(turns) < MaxTurns
  /\ SendMessageBody
  /\ UNCHANGED otherVars

\* which of the three tests of the first line of handleSendMessage fail
RejectionReasons ==
  (IF newMessage = <<>> THEN {"empty"} ELSE {})
    \cup (IF newMessage # <<>> /\ Trim(newMessage) = <<>> THEN {"whitespace"} ELSE {})
    \cup (IF currentConversationId = NoConv THEN {"noConversation"} ELSE {})
    \cup (IF ~currentUser THEN {"noUser"} ELSE {})

\* handleSendMessage, run by a submit event that reaches the form in any state of
\* the page (form.requestSubmit(), a dispatched event), the disabled button aside
SubmitEvent ==
  /\ submits < MaxSubmits
  /\ Len(turns) < MaxTurns
  /\ SendMessageBody
  /\ submits' = submits + 1
  /\ rejections' = IF SendRejected THEN rejections \cup {RejectionReasons} ELSE rejections
  /\ UNCHANGED outsideChat

\* ---------------------------------------------- one chat turn, step by step
\* a replacement that keeps the id of the entry it replaces
ReplaceByIdKeepsId(ms, id, persisted) ==
  [i \in 1..Len(ms) |-> IF ms[i].id = id THEN [persisted EXCEPT !.id = id] ELSE ms[i]]

\* prev.map(m => m.id === id ? {...persisted, id: persisted.id || id} : m)
ReplaceById(ms, id, persisted) ==
  [i \in 1..Len(ms) |-> IF ms[i].id = id THEN persisted ELSE ms[i]]

\* an updater that appends the fragment to every assistant entry
AppendContentToAssistant(ms, id, chunk) ==
  [i \in 1..Len(ms) |-> IF ms[i].sender = "ai" THEN [ms[i] EXCEPT !.content = @ \o chunk]
                                               ELSE ms[i]]

\* prevMessages.map(msg => msg.id === id ? {...msg, content: msg.content + chunk} : msg)
AppendContentById(ms, id, chunk) ==
  [i \in 1..Len(ms) |-> IF ms[i].id = id THEN [ms[i] EXCEPT !.content = @ \o chunk]
                                          ELSE ms[i]]

\* prevMessages.map(msg => msg.id === id ? {...msg, isStreaming: false} : msg)
StopStreamingById(ms, id) ==
  [i \in 1..Len(ms) |-> IF ms[i].id = id THEN [ms[i] EXCEPT !.isStreaming = FALSE]
                                          ELSE ms[i]]

\* prev.filter(m => m.id !== a && m.id !== b)
FilterOutIds(ms, ids) == SelectSeq(ms, LAMBDA m : m.id \notin ids)

SetTurn(t, r) == turns' = [turns EXCEPT ![t] = r]

\* the backend stores a message, stamped with a later time than the one before
BackendStore(c, content, sender, ts) ==
  /\ ts = clock + 1
  /\ db' = Append(db, StoredMessage(c, content, sender, ts))
  /\ clock' = ts

\* apiService.sendMessage(.., 'user') resolves; handleSendMessage runs on to the
\* await fetch(...) inside getAiReplyStream
UserWriteOk(t, ts) ==
  /\ Outcome(TRUE)
  /\ t \in 1..Len(turns)
  /\ turns[t].pc = "sendUser"
  /\ BackendStore(turns[t].conv, turns[t].content, "user", ts)
  /\ LET persistedUserMessage == StoredMessage(turns[t].conv, turns[t].content, "user", ts)
     IN /\ messages' = ReplaceById(messages, TempUserId(t), persistedUserMessage)
        /\ SetTurn(t, [turns[t] EXCEPT !.pc = "fetch", !.userMsgId = Len(db) + 1,
                                       !.relayRequests = @ + 1])
  /\ UNCHANGED <<currentUser, paramConvId, conversations, currentConversationId,
                 newMessage, isLoading, error, pendingFetches, convs>>
  /\ UNCHANGED otherVars

\* a catch that takes only the assistant placeholder off the list
UserWriteFailKeepsUserEntry(t) ==
  /\ Outcome(FALSE)
  /\ t \in 1..Len(turns)
  /\ turns[t].pc = "sendUser"
  /\ error' = ErrSend
  /\ messages' = FilterOutIds(messages, {TempAiId(t)})
  /\ isLoading' = FALSE
  /\ SetTurn(t, [turns[t] EXCEPT !.pc = "userFailed"])
  /\ UNCHANGED <<currentUser, paramConvId, conversations, currentConversationId,
                 newMessage, pendingFetches, convs, db, clock>>
  /\ UNCHANGED otherVars

\* apiService.sendMessage(.., 'user') rejects: the catch of handleSendMessage
UserWriteFail(t) ==
  /\ Outcome(FALSE)
  /\ t \in 1..Len(turns)
  /\ turns[t].pc = "sendUser"
  /\ error' = ErrSend
  /\ messages' = FilterOutIds(messages, {TempUserId(t), TempAiId(t)})
  /\ isLoading' = FALSE
  /\ SetTurn(t, [turns[t] EXCEPT !.pc = "userFailed"])
  /\ UNCHANGED <<currentUser, paramConvId, conversations, currentConversationId,
                 newMessage, pendingFetches, convs, db, clock>>
  /\ UNCHANGED otherVars

\* onError taking the user's message of the turn off the list as well
OnErrorRetractsTurn(t) ==
  /\ error' = ErrStream
  /\ messages' = FilterOutIds(messages, {TempAiId(t), DbId(turns[t].userMsgId)})
  /\ isLoading' = FALSE

\* the onError callback of turn t
OnError(t) ==
  /\ error' = ErrStream
  /\ messages' = FilterOutIds(messages, {TempAiId(t)})
  /\ isLoading' = FALSE

\* a failed fetch answered by fetching again
StreamOpenFailRetries(t, why) ==
  /\ Outcome(FALSE)
  /\ t \in 1..Len(turns)
  /\ turns[t].pc = "fetch"
  /\ why \in {"reject", "notOk", "noBody"}
  /\ SetTurn(t, [turns[t] EXCEPT !.relayRequests = @ + 1])
  /\ UNCHANGED <<currentUser, paramConvId, conversations, currentConversationId, messages,
                 newMessage, isLoading, error, pendingFetches, convs, db, clock>>
  /\ UNCHANGED otherVars

\* a response without a body taken for a stream that ended at once: onComplete
StreamOpenFailNoBodyCompletes(t, why) ==
  /\ Outcome(FALSE)
  /\ t \in 1..Len(turns)
  /\ turns[t].pc = "fetch"
  /\ why \in {"reject", "notOk", "noBody"}
  /\ IF why = "noBody"
     THEN /\ messages' = StopStreamingById(messages, TempAiId(t))
          /\ error' = error
          /\ SetTurn(t, [turns[t] EXCEPT !.pc = "done", !.onComplete = @ + 1,
                                         !.failWhy = why])
     ELSE /\ OnError(t)
          /\ SetTurn(t, [turns[t] EXCEPT !.pc = "error", !.streamFailed = TRUE,
                                         !.onError = @ + 1, !.failWhy = why])
  /\ isLoading' = FALSE
  /\ UNCHANGED <<currentUser, paramConvId, conversations, currentConversationId,
                 newMessage, pendingFetches, convs, db, clock>>
  /\ UNCHANGED otherVars

\* getAiReplyStream: fetch rejects, or the response is not OK, or it has no body;
\* the catch calls onError
StreamOpenFail(t, why) ==
  /\ Outcome(FALSE)
  /\ t \in 1..Len(turns)
  /\ turns[t].pc = "fetch"
  /\ why \in {"reject", "notOk", "noBody"}
  /\ OnError(t)
  /\ SetTurn(t, [turns[t] EXCEPT !.pc = "error", !.streamFailed = TRUE, !.onError = @ + 1,
                                 !.failWhy = why])
  /\ UNCHANGED <<currentUser, paramConvId, conversations, currentConversationId,
                 newMessage, pendingFetches, convs, db, clock>>
  /\ UNCHANGED otherVars

\* getAiReplyStream: the response is OK and has a body; on to the first read
StreamOpenOk(t) ==
  /\ Outcome(TRUE)
  /\ t \in 1..Len(turns)
  /\ turns[t].pc = "fetch"
  /\ SetTurn(t, [turns[t] EXCEPT !.pc = "read"])
  /\ UNCHANGED <<currentUser, paramConvId, conversations, currentConversationId, messages,
                 newMessage, isLoading, error, pendingFetches, convs,
                 db, clock>>
  /\ UNCHANGED otherVars

\* onChunk putting the fragment in front of the content
OnChunkPrepend(t, chunk) ==
  messages' = [i \in 1..Len(messages) |->
                 IF messages[i].id = TempAiId(t)
                 THEN [messages[i] EXCEPT !.content = chunk \o @] ELSE messages[i]]

\* onChunk overwriting the content with the fragment
OnChunkOverwrite(t, chunk) ==
  messages' = [i \in 1..Len(messages) |->
                 IF messages[i].id = TempAiId(t)
                 THEN [messages[i] EXCEPT !.content = chunk] ELSE messages[i]]

\* the onChunk callback of turn t
OnChunk(t, chunk) == messages' = AppendContentById(messages, TempAiId(t), chunk)

\* body chunks read so far, over all turns
ReadsSoFar == SeqSum([i \in 1..Len(turns) |-> turns[i].reads])

\* reader.read() resolves with {done: false, value}
ReadValue(t, value) ==
  /\ Outcome(TRUE)
  /\ t \in 1..Len(turns)
  /\ turns[t].pc = "read"
  /\ ReadsSoFar < MaxReads
  /\ LET dec == DecodeStream(value, turns[t].pend)
     IN /\ OnChunk(t, dec.text)
        /\ SetTurn(t, [turns[t] EXCEPT !.pend = dec.pend, !.reads = @ + 1,
                                       !.values = Append(@, value),
                                       !.delivered = Append(@, dec.text)])
  /\ UNCHANGED <<currentUser, paramConvId, conversations, currentConversationId,
                 newMessage, isLoading, error, pendingFetches, convs,
                 db, clock>>
  /\ UNCHANGED otherVars

\* a rejected read taken for the end of the stream: onComplete instead of onError
ReadFailAsDone(t) ==
  /\ t \in 1..Len(turns)
  /\ turns[t].pc = "read"
  /\ Outcome(FALSE)
  /\ messages' = StopStreamingById(messages, TempAiId(t))
  /\ LET partial == IF \E i \in 1..Len(messages) : messages[i].id = TempAiId(t)
                    THEN Concat(turns[t].delivered) ELSE <<>>
     IN IF partial # <<>>
        THEN /\ SetTurn(t, [turns[t] EXCEPT !.pc = "sendAi", !.aiWrite = "pending",
                                            !.streamFailed = TRUE, !.onComplete = @ + 1,
                                            !.aiRequests = @ + 1,
                                            !.finalAiContent = partial])
             /\ isLoading' = isLoading
        ELSE /\ SetTurn(t, [turns[t] EXCEPT !.pc = "done", !.streamFailed = TRUE,
                                            !.onComplete = @ + 1])
             /\ isLoading' = FALSE
  /\ UNCHANGED <<currentUser, paramConvId, conversations, currentConversationId,
                 newMessage, error, pendingFetches, convs, db, clock>>
  /\ UNCHANGED otherVars

\* reader.read() rejects: the catch calls onError
ReadFail(t) ==
  /\ Outcome(FALSE)
  /\ t \in 1..Len(turns)
  /\ turns[t].pc = "read"
  /\ OnError(t)
  /\ SetTurn(t, [turns[t] EXCEPT !.pc = "error", !.streamFailed = TRUE, !.onError = @ + 1,
                                 !.failWhy = "read"])
  /\ UNCHANGED <<currentUser, paramConvId, conversations, currentConversationId,
                 newMessage, pendingFetches, convs, db, clock>>
  /\ UNCHANGED otherVars

\* the content the updater of onComplete finds in the placeholder of turn t
PlaceholderContent(ms, t) ==
  IF \E i \in 1..Len(ms) : ms[i].id = TempAiId(t)
  THEN ms[CHOOSE i \in 1..Len(ms) : ms[i].id = TempAiId(t)].content
  ELSE <<>>

\* reader.read() resolves with {done: true}: onComplete up to its await.
\* finalAiContent is assigned inside the updater passed to setMessages and read
\* right after the call: React runs the updater inside the call (updaterRan) or
\* at the next render, after the test of finalAiContent.
ReadDone(t, updaterRan) ==
  /\ Outcome(TRUE)
  /\ t \in 1..Len(turns)
  /\ turns[t].pc = "read"
  /\ LET finalAiContent == IF updaterRan THEN PlaceholderContent(messages, t) ELSE <<>>
     IN /\ messages' = StopStreamingById(messages, TempAiId(t))
        /\ IF finalAiContent # <<>>
           THEN /\ SetTurn(t, [turns[t] EXCEPT !.pc = "sendAi", !.aiWrite = "pending",
                                               !.onComplete = @ + 1,
                                               !.aiRequests = @ + 1,
                                               !.finalAiContent = finalAiContent])
                /\ isLoading' = isLoading
           ELSE /\ SetTurn(t, [turns[t] EXCEPT !.pc = "done", !.onComplete = @ + 1])
                /\ isLoading' = FALSE
  /\ UNCHANGED <<currentUser, paramConvId, conversations, currentConversationId,
                 newMessage, error, pendingFetches, convs, db, clock>>
  /\ UNCHANGED otherVars

\* an assistant write addressed to the conversation selected when it is issued
AiWriteOkToSelected(t, ts) ==
  /\ Outcome(TRUE)
  /\ t \in 1..Len(turns)
  /\ turns[t].pc = "sendAi"
  /\ BackendStore(currentConversationId, turns[t].finalAiContent, "ai", ts)
  /\ LET persistedAiMessage ==
           StoredMessage(currentConversationId, turns[t].finalAiContent, "ai", ts)
     IN messages' = ReplaceById(messages, TempAiId(t), persistedAiMessage)
  /\ isLoading' = FALSE
  /\ SetTurn(t, [turns[t] EXCEPT !.pc = "done", !.aiWrite = "ok", !.aiMsgId = Len(db) + 1])
  /\ UNCHANGED <<currentUser, paramConvId, conversations, currentConversationId,
                 newMessage, error, pendingFetches, convs>>
  /\ UNCHANGED otherVars

\* apiService.sendMessage(.., 'ai') resolves: the rest of onComplete
AiWriteOk(t, ts) ==
  /\ Outcome(TRUE)
  /\ t \in 1..Len(turns)
  /\ turns[t].pc = "sendAi"
  /\ BackendStore(turns[t].conv, turns[t].finalAiContent, "ai", ts)
  /\ LET persistedAiMessage == StoredMessage(turns[t].conv, turns[t].finalAiContent, "ai", ts)
     IN messages' = ReplaceById(messages, TempAiId(t), persistedAiMessage)
  /\ isLoading' = FALSE
  /\ SetTurn(t, [turns[t] EXCEPT !.pc = "done", !.aiWrite = "ok", !.aiMsgId = Len(db) + 1])
  /\ UNCHANGED <<currentUser, paramConvId, conversations, currentConversationId,
                 newMessage, error, pendingFetches, convs>>
  /\ UNCHANGED otherVars

\* a failed assistant write handled like a stream error
AiWriteFailDropsReply(t) ==
  /\ Outcome(FALSE)
  /\ t \in 1..Len(turns)
  /\ turns[t].pc = "sendAi"
  /\ error' = ErrStream
  /\ messages' = FilterOutIds(messages, {TempAiId(t)})
  /\ isLoading' = FALSE
  /\ SetTurn(t, [turns[t] EXCEPT !.pc = "done", !.aiWrite = "failed"])
  /\ UNCHANGED <<currentUser, paramConvId, conversations, currentConversationId,
                 newMessage, pendingFetches, convs, db, clock>>
  /\ UNCHANGED otherVars

\* an inner catch that returns before setIsLoading(false)
AiWriteFailKeepsLoading(t) ==
  /\ Outcome(FALSE)
  /\ t \in 1..Len(turns)
  /\ turns[t].pc = "sendAi"
  /\ error' = ErrSaveAi
  /\ SetTurn(t, [turns[t] EXCEPT !.pc = "done", !.aiWrite = "failed"])
  /\ UNCHANGED <<currentUser, paramConvId, conversations, currentConversationId, messages,
                 newMessage, isLoading, pendingFetches, convs, db, clock>>
  /\ UNCHANGED otherVars

\* apiService.sendMessage(.., 'ai') rejects: the inner catch of onComplete
AiWriteFail(t) ==
  /\ Outcome(FALSE)
  /\ t \in 1..Len(turns)
  /\ turns[t].pc = "sendAi"
  /\ error' = ErrSaveAi
  /\ isLoading' = FALSE
  /\ SetTurn(t, [turns[t] EXCEPT !.pc = "done", !.aiWrite = "failed"])
  /\ UNCHANGED <<currentUser, paramConvId, conversations, currentConversationId, messages,
                 newMessage, pendingFetches, convs, db, clock>>
  /\ UNCHANGED otherVars

Next ==
  \/ \E ok \in BOOLEAN : CurrentUserLoaded(ok)
  \/ \E c \in ConvIds, ok \in BOOLEAN : FetchMessagesDone(c, ok)
  \/ \E ok \in BOOLEAN : HandleNewConversation(ok)
  \/ \E c \in ConvIds : SwitchConversation(c)
  \/ \E text \in InputTexts : SetNewMessage(text)
  \/ HandleSendMessage
  \/ \E t \in TurnIds, ts \in 1..(2 * MaxTurns) : UserWriteOk(t, ts)
  \/ \E t \in TurnIds : UserWriteFail(t)
  \/ \E t \in TurnIds, why \in {"reject", "notOk", "noBody"} : StreamOpenFail(t, why)
  \/ \E t \in TurnIds : StreamOpenOk(t)
  \/ \E t \in TurnIds, value \in ReadValues : ReadValue(t, value)
  \/ \E t \in TurnIds : ReadFail(t)
  \/ \E t \in TurnIds, updaterRan \in BOOLEAN : ReadDone(t, updaterRan)
  \/ \E t \in TurnIds, ts \in 1..(2 * MaxTurns) : AiWriteOk(t, ts)
  \/ \E t \in TurnIds : AiWriteFail(t)

Spec == Init /\ [][Next]_vars

\* the request turn t is awaiting settles (a stream being a finite series of reads)
TurnSettles(t) ==
  \/ \E ts \in 1..(2 * MaxTurns) : UserWriteOk(t, ts)
  \/ UserWriteFail(t)
  \/ \E why \in {"reject", "notOk", "noBody"} : StreamOpenFail(t, why)
  \/ StreamOpenOk(t)
  \/ \E value \in ReadValues : ReadValue(t, value)
  \/ ReadFail(t)
  \/ \E updaterRan \in BOOLEAN : ReadDone(t, updaterRan)
  \/ \E ts \in 1..(2 * MaxTurns) : AiWriteOk(t, ts)
  \/ AiWriteFail(t)

\* every request that was started settles, and the continuation awaiting it runs
RequestsSettle ==
  /\ \A c \in ConvIds : WF_vars(\E ok \in BOOLEAN : FetchMessagesDone(c, ok))
  /\ \A t \in TurnIds : WF_vars(TurnSettles(t))

\* the chat page without clicks on the sidebar entries (a click on '+ New Chat'
\* still changes the conversation while a turn is in progress)
NextLive ==
  \/ \E ok \in BOOLEAN : CurrentUserLoaded(ok)
  \/ \E c \in ConvIds, ok \in BOOLEAN : FetchMessagesDone(c, ok)
  \/ \E ok \in BOOLEAN : HandleNewConversation(ok)
  \/ \E text \in InputTexts : SetNewMessage(text)
  \/ HandleSendMessage
  \/ \E t \in TurnIds, ts \in 1..(2 * MaxTurns) : UserWriteOk(t, ts)
  \/ \E t \in TurnIds : UserWriteFail(t)
  \/ \E t \in TurnIds, why \in {"reject", "notOk", "noBody"} : StreamOpenFail(t, why)
  \/ \E t \in TurnIds : StreamOpenOk(t)
  \/ \E t \in TurnIds, value \in ReadValues : ReadValue(t, value)
  \/ \E t \in TurnIds : ReadFail(t)
  \/ \E t \in TurnIds, updaterRan \in BOOLEAN : ReadDone(t, updaterRan)
  \/ \E t \in TurnIds, ts \in 1..(2 * MaxTurns) : AiWriteOk(t, ts)
  \/ \E t \in TurnIds : AiWriteFail(t)

SpecLive == Init /\ [][NextLive]_vars /\ RequestsSettle

\* the page with its form driven by submit events, up to the first await of
\* handleSendMessage
NextSubmit ==
  \/ \E ok \in BOOLEAN : CurrentUserLoaded(ok)
  \/ \E c \in ConvIds, ok \in BOOLEAN : FetchMessagesDone(c, ok)
  \/ \E ok \in BOOLEAN : HandleNewConversation(ok)
  \/ \E c \in ConvIds : SwitchConversation(c)
  \/ \E text \in InputTexts : SetNewMessage(text)
  \/ SubmitEvent

SpecSubmit == Init /\ [][NextSubmit]_vars

\* --------------------------- the sidebar clicked while a fetch is in flight
\* a message stored in an earlier session
EarlierMessage(n, c, content) ==
  [id |-> DbId(n), content |-> content, sender |-> "user", timestamp |-> n,
   conversation_id |-> c, isStreaming |-> FALSE]

\* the page opened on one of two conversations that hold a message each
InitRace ==
  /\ currentUser = TRUE
  /\ convs = ConvIds
  /\ conversations = convs
  /\ paramConvId \in convs
  /\ currentConversationId = paramConvId
  /\ messages = <<>>
  /\ newMessage = <<>>
  /\ error = ""
  /\ isLoading = TRUE
  /\ pendingFetches = [c \in ConvIds |-> IF c = paramConvId THEN 1 ELSE 0]
  /\ turns = <<>>
  /\ db = <<EarlierMessage(1, 1, <<CharH>>), EarlierMessage(2, 2, <<CharH, CharH>>)>>
  /\ clock = 2
  /\ faults = 0
  /\ submits = 0
  /\ rejections = {}
  /\ AppSignedIn
  /\ GatewayIdle
  /\ StreamIdle

\* a click on a sidebar entry, possibly while an earlier fetchMessages awaits
SwitchConversationRacing(convId) ==
  /\ PendingTotal(pendingFetches) < MaxRacing
  /\ SwitchConversationTo(convId)

NextRace ==
  \/ \E c \in ConvIds : SwitchConversationRacing(c)
  \/ \E c \in ConvIds, ok \in BOOLEAN : FetchMessagesDone(c, ok)
  \/ \E text \in InputTexts : SetNewMessage(text)

SpecRace == InitRace /\ [][NextRace]_vars

\* ------------------------------------- App with its login and signup pages
\* the chat page's variables but the currentUser prop, and the submit history
appFrame == <<paramConvId, conversations, currentConversationId, messages, newMessage,
              isLoading, error, pendingFetches, turns, convs, db, clock, faults, submitVars,
              gatewayVars, streamVars>>

\* the chat page is not mounted
ChatPageUnmounted ==
  /\ convs = {1}
  /\ paramConvId = NoConv
  /\ conversations = {}
  /\ currentConversationId = NoConv
  /\ messages = <<>>
  /\ newMessage = <<>>
  /\ error = ""
  /\ isLoading = FALSE
  /\ pendingFetches = [c \in ConvIds |-> 0]
  /\ turns = <<>>
  /\ db = <<>>
  /\ clock = 0
  /\ faults = 0
  /\ submits = 0
  /\ rejections = {}

\* the routes whose element is a page when there is a token, and all routes
ProtectedPaths == {"/chat", "/history"}
Paths == {"/login", "/signup"} \cup ProtectedPaths

\* App as index.js mounts it, after the first run of the fetchUser effect up to
\* its await
InitApp ==
  /\ currentUser = FALSE
  /\ ChatPageUnmounted
  /\ GatewayIdle
  /\ StreamIdle
  /\ users = {<<"ann", PwGood>>}
  /\ lsToken \in {NoToken, TokenOf("ann"), ExpiredToken}
  /\ token = lsToken
  /\ tokenFrom = IF token = NoToken THEN "none" ELSE "storage"
  /\ authHeader = SetAuthToken(token)
  /\ loading = (token # NoToken)
  /\ userFetch = IF token = NoToken THEN {}
                 ELSE {[tok |-> token, auth |-> SetAuthToken(token)]}
  /\ issued = IF token = NoToken THEN {}
              ELSE {Request("me", SetAuthToken(token), token, lsToken, "storage")}
  /\ location \in Paths
  /\ username = ""
  /\ password = <<>>
  /\ formError = ""
  /\ handleSubmit = IdleSubmit

\* routes that show the chat and history pages without a token
RouteTargetOpen(path, tok) ==
  IF path \in {"/login", "/signup"} THEN (IF tok = NoToken THEN path ELSE "/chat")
  ELSE path

\* the path whose page the <Routes> of App show for path: the path itself, or
\* the one its <Navigate> element goes to
RouteTarget(path, tok) ==
  IF path \in {"/login", "/signup"} THEN (IF tok = NoToken THEN path ELSE "/chat")
  ELSE IF tok # NoToken THEN path ELSE "/login"

\* what App renders
Page ==
  IF loading THEN "loading"
  ELSE IF RouteTarget(location, token) # location THEN "redirect"
  ELSE location

\* the fetchConversations effect of ChatPage and of HistoryPage when the page
\* mounts or currentUser changes: getConversations, sent with the header
\* apiClient has at that time
ConversationsRequest(runs, header, tok, ls, from) ==
  IF runs THEN {Request("conversations", header, tok, ls, from)} ELSE {}

Issue(requests) == issued' = IF requests = {} THEN issued ELSE requests

\* a <Link> of the nav bar or of a page
FollowLink(path) ==
  /\ ~loading
  /\ path # location
  /\ path \in (IF token # NoToken THEN ProtectedPaths ELSE {"/login", "/signup"})
  /\ location' = path
  /\ username' = ""
  /\ password' = <<>>
  /\ formError' = ""
  /\ handleSubmit' = [handleSubmit EXCEPT !.mounted = FALSE]
  /\ Issue(ConversationsRequest(path \in ProtectedPaths /\ currentUser, authHeader, token,
                                lsToken, tokenFrom))
  /\ UNCHANGED <<currentUser, token, lsToken, authHeader, loading, users, userFetch,
                 tokenFrom, appFrame>>

\* the effect of a rendered <Navigate to=...>
NavigateRedirect ==
  /\ Page = "redirect"
  /\ location' = RouteTarget(location, token)
  /\ username' = ""
  /\ password' = <<>>
  /\ formError' = ""
  /\ handleSubmit' = [handleSubmit EXCEPT !.mounted = FALSE]
  /\ Issue(ConversationsRequest(location' \in ProtectedPaths /\ currentUser, authHeader, token,
                                lsToken, tokenFrom))
  /\ UNCHANGED <<currentUser, token, lsToken, authHeader, loading, users, userFetch,
                 tokenFrom, appFrame>>

\* onChange of the username and password fields
TypeCredentials(u, p) ==
  /\ Page \in {"/login", "/signup"}
  /\ <<u, p>> # <<username, password>>
  /\ username' = u
  /\ password' = p
  /\ UNCHANGED <<currentUser, token, lsToken, authHeader, loading, location, formError,
                 handleSubmit, users, userFetch, issued, tokenFrom, appFrame>>

\* the username and password const bindings of the render whose handleSubmit runs
LoginCredentials == <<handleSubmit.username, handleSubmit.password>>

\* LoginPage.handleSubmit up to its await (both fields are `required`)
LoginSubmit ==
  /\ Page = "/login"
  /\ handleSubmit.pc = "idle"
  /\ username # ""
  /\ password # <<>>
  /\ formError' = ""
  /\ handleSubmit' = [IdleSubmit EXCEPT !.pc = "login", !.page = "login",
                                        !.username = username, !.password = password,
                                        !.mounted = TRUE,
                                        !.sentLogin = <<username, password>>]
  /\ UNCHANGED <<currentUser, token, lsToken, authHeader, loading, location, username,
                 password, users, userFetch, issued, tokenFrom, appFrame>>

\* SignupPage.handleSubmit up to its await, or to its return on a short password
SignupSubmit ==
  /\ Page = "/signup"
  /\ handleSubmit.pc = "idle"
  /\ username # ""
  /\ password # <<>>
  /\ IF Len(password) < MinPasswordLen
     THEN /\ formError' = ErrPasswordShort
          /\ handleSubmit' = handleSubmit
     ELSE /\ formError' = ""
          /\ handleSubmit' = [IdleSubmit EXCEPT !.pc = "signup", !.page = "signup",
                                                !.username = username,
                                                !.password = password, !.mounted = TRUE,
                                                !.sentSignup = <<username, password>>]
  /\ UNCHANGED <<currentUser, token, lsToken, authHeader, loading, location, username,
                 password, users, userFetch, issued, tokenFrom, appFrame>>

\* a catch that shows the default text whatever the backend answered
ShownErrorDefaultOnly(page, detail) ==
  IF page = "login" THEN ErrLoginDefault ELSE ErrSignupDefault

\* err.response?.data?.detail || '<the default text of the page>'
ShownError(page, detail) ==
  IF detail # "" THEN detail
  ELSE IF page = "login" THEN ErrLoginDefault ELSE ErrSignupDefault

\* the catch of handleSubmit; setError reaches the page only while it is mounted
SubmitFailed(detail) ==
  /\ formError' = IF handleSubmit.mounted THEN ShownError(handleSubmit.page, detail)
                  ELSE formError
  /\ handleSubmit' = [handleSubmit EXCEPT !.pc = "idle", !.outcome = "failed",
                                          !.detail = detail]

\* apiService.signup settles: on success SignupPage.handleSubmit goes on to
\* apiService.login(username, password)
SignupResponse(ok, detail) ==
  /\ handleSubmit.pc = "signup"
  /\ LET taken == \E acc \in users : acc[1] = handleSubmit.sentSignup[1]
     IN IF ok
        THEN /\ ~taken
             /\ detail = ""
             /\ users' = users \cup {handleSubmit.sentSignup}
             /\ handleSubmit' = [handleSubmit EXCEPT !.pc = "login",
                                                     !.sentLogin = LoginCredentials]
             /\ formError' = formError
        ELSE /\ detail = DetailText => taken
             /\ users' = users
             /\ SubmitFailed(detail)
  /\ UNCHANGED <<currentUser, token, lsToken, authHeader, loading, location, username,
                 password, userFetch, issued, tokenFrom, appFrame>>

\* apiService.login settles.  On success the page calls onLogin / onSignupSuccess
\* (handleLogin) and navigate('/chat'); then React renders and runs the effects:
\* with both updates in one render (batched) ChatPage mounts in the commit in
\* which the token changes and its effects run before App's, otherwise App's
\* fetchUser effect has run before ChatPage mounts.
LoginResponse(ok, detail, batched) ==
  /\ handleSubmit.pc = "login"
  /\ LET known == handleSubmit.sentLogin \in users
         newToken == TokenOf(handleSubmit.sentLogin[1])
         from == handleSubmit.page
         changed == newToken # token
         newHeader == IF changed THEN SetAuthToken(newToken) ELSE authHeader
     IN IF ok
        THEN /\ known
             /\ detail = ""
             /\ lsToken' = newToken
             /\ token' = newToken
             /\ tokenFrom' = from
             /\ location' = "/chat"
             /\ authHeader' = newHeader
             /\ userFetch' = IF changed
                             THEN userFetch \cup {[tok |-> newToken, auth |-> newHeader]}
                             ELSE userFetch
             /\ Issue(ConversationsRequest(Page # "/chat" /\ currentUser,
                                           IF batched THEN authHeader ELSE newHeader,
                                           newToken, newToken, from)
                        \cup (IF changed
                              THEN {Request("me", newHeader, newToken, newToken, from)}
                              ELSE {}))
             /\ username' = ""
             /\ password' = <<>>
             /\ formError' = ""
             /\ handleSubmit' = [handleSubmit EXCEPT !.pc = "idle", !.outcome = "ok",
                                                     !.calledBack = TRUE,
                                                     !.navigated = TRUE,
                                                     !.mounted = FALSE]
        ELSE /\ ~batched
             /\ detail = DetailText => ~known
             /\ SubmitFailed(detail)
             /\ UNCHANGED <<token, lsToken, authHeader, location, username, password,
                            userFetch, issued, tokenFrom>>
  /\ UNCHANGED <<currentUser, loading, users, appFrame>>

\* a catch that leaves loading as it is
CurrentUserResponseKeepsLoading(r, ok) ==
  /\ r \in userFetch
  /\ userFetch' = userFetch \ {r}
  /\ IF ok
     THEN /\ Authorized(r.auth)
          /\ loading' = FALSE
          /\ currentUser' = TRUE
          /\ Issue(ConversationsRequest(location \in ProtectedPaths /\ token # NoToken,
                                        authHeader, token, lsToken, tokenFrom))
          /\ UNCHANGED <<token, lsToken, authHeader, tokenFrom>>
     ELSE /\ lsToken' = NoToken
          /\ authHeader' = SetAuthToken(NoToken)
          /\ token' = NoToken
          /\ currentUser' = FALSE
          /\ tokenFrom' = "none"
          /\ issued' = issued
          /\ loading' = loading
  /\ UNCHANGED <<location, username, password, formError, handleSubmit, users, appFrame>>

\* getCurrentUser settles: the rest of the fetchUser effect that sent it
CurrentUserResponse(r, ok) ==
  /\ r \in userFetch
  /\ userFetch' = userFetch \ {r}
  /\ loading' = FALSE
  /\ IF ok
     THEN /\ Authorized(r.auth)
          /\ currentUser' = TRUE
          /\ Issue(ConversationsRequest(location \in ProtectedPaths /\ token # NoToken, authHeader,
                                        token, lsToken, tokenFrom))
          /\ UNCHANGED <<token, lsToken, authHeader, tokenFrom>>
     ELSE /\ lsToken' = NoToken
          /\ authHeader' = SetAuthToken(NoToken)
          /\ token' = NoToken
          /\ currentUser' = FALSE
          /\ tokenFrom' = "none"
          /\ issued' = issued
  /\ UNCHANGED <<location, username, password, formError, handleSubmit, users, appFrame>>

\* a logout that leaves the Authorization header on the client
HandleLogoutKeepsHeader ==
  /\ ~loading
  /\ token # NoToken
  /\ lsToken' = NoToken
  /\ token' = NoToken
  /\ currentUser' = FALSE
  /\ tokenFrom' = "none"
  /\ UNCHANGED <<authHeader, loading, location, username, password, formError,
                 handleSubmit, users, userFetch, issued, appFrame>>

\* handleLogout, the Logout button of the nav bar
HandleLogout ==
  /\ ~loading
  /\ token # NoToken
  /\ lsToken' = NoToken
  /\ authHeader' = SetAuthToken(NoToken)
  /\ token' = NoToken
  /\ currentUser' = FALSE
  /\ tokenFrom' = "none"
  /\ UNCHANGED <<loading, location, username, password, formError, handleSubmit, users,
                 userFetch, issued, appFrame>>

NextApp ==
  \/ \E path \in Paths : FollowLink(path)
  \/ NavigateRedirect
  \/ \E u \in Usernames, p \in Passwords : TypeCredentials(u, p)
  \/ LoginSubmit
  \/ SignupSubmit
  \/ \E ok \in BOOLEAN, detail \in Details : SignupResponse(ok, detail)
  \/ \E ok \in BOOLEAN, detail \in Details, batched \in BOOLEAN :
       LoginResponse(ok, detail, batched)
  \/ \E r \in UserFetches, ok \in BOOLEAN : CurrentUserResponse(r, ok)
  \/ HandleLogout

SpecApp == InitApp /\ [][NextApp]_vars

\* ------------------------------------------------------------ the gateway
\* A request path is the sequence of its pieces: "/", names, "." and extension.
PathRoot == <<"/">>
PathIndex == <<"/", "index", ".", "html">>
PathChat == <<"/", "chat">>
PathMainJs == <<"/", "static", "/", "main", ".", "js">>
PathMissingCss == <<"/", "static", "/", "gone", ".", "css">>
PathUpperJs == <<"/", "static", "/", "main", ".", "JS">>
PathHealth == <<"/", "health">>
PathHealthz == <<"/", "health", "z">>
PathHealthJs == <<"/", "health", ".", "js">>
PathBackend == <<"/", "api", "/", "v1", "/", "backend", "/">>
PathBackendToken == <<"/", "api", "/", "v1", "/", "backend", "/", "token">>
PathBackendBare == <<"/", "api", "/", "v1", "/", "backend">>
PathAgent == <<"/", "api", "/", "v1", "/", "agent", "/">>
PathAgentChat == <<"/", "api", "/", "v1", "/", "agent", "/", "chat">>
PathAgentJs == <<"/", "api", "/", "v1", "/", "agent", "/", "app", ".", "js">>

GatewayPaths ==
  {PathRoot, PathIndex, PathChat, PathMainJs, PathMissingCss, PathUpperJs, PathHealth,
   PathHealthz, PathHealthJs, PathBackend, PathBackendToken, PathBackendBare, PathAgent,
   PathAgentChat, PathAgentJs}

\* the files under root /usr/share/nginx/html
BundleFiles == {PathIndex, PathMainJs}

\* location ~* \.(css|js|jpg|jpeg|gif|png|ico|woff|woff2|ttf|eot|svg)$
CacheExtensions ==
  {"css", "js", "jpg", "jpeg", "gif", "png", "ico", "woff", "woff2", "ttf", "eot", "svg"}

\* ~* matches without regard to case
Lower(ext) == IF ext = "JS" THEN "js" ELSE ext

MatchesCacheRegex(path) ==
  /\ Len(path) >= 2
  /\ path[Len(path) - 1] = "."
  /\ Lower(path[Len(path)]) \in CacheExtensions

IsPrefix(p, s) == Len(p) <= Len(s) /\ SubSeq(s, 1, Len(p)) = p

\* the server block of nginx.conf
NginxConf ==
  [prefix |-> {[path |-> PathRoot, do |-> "try_files"],
               [path |-> PathHealth, do |-> "health"]},
   regex |-> TRUE]

\* the server block the Railway Dockerfile writes
RailwayConf ==
  [prefix |-> {[path |-> PathRoot, do |-> "try_files"],
               [path |-> PathBackend, do |-> "unavailable"],
               [path |-> PathAgent, do |-> "unavailable"],
               [path |-> PathHealth, do |-> "health"]},
   regex |-> FALSE]

Configs == {"nginx.conf", "railway"}

ServerBlock(conf) == IF conf = "nginx.conf" THEN NginxConf ELSE RailwayConf

\* a choice of location that takes the shortest matching prefix
ShortestPrefix(server, path) ==
  LET matching == {l \in server.prefix : IsPrefix(l.path, path)}
  IN (CHOOSE l \in matching : \A m \in matching : Len(l.path) <= Len(m.path)).do

\* nginx: of the prefix locations that match, the longest
LongestPrefix(server, path) ==
  LET matching == {l \in server.prefix : IsPrefix(l.path, path)}
  IN (CHOOSE l \in matching : \A m \in matching : Len(m.path) <= Len(l.path)).do

\* nginx: a matching regular-expression location is used in place of the longest
\* prefix location
SelectLocation(server, path) ==
  IF server.regex /\ MatchesCacheRegex(path) THEN "static"
  ELSE LongestPrefix(server, path)

FileResponse(path) == [status |-> 200, body |-> path, by |-> "static"]

\* the answer of the server block to a request for path
Serve(server, path) ==
  LET do == SelectLocation(server, path)
  IN IF do = "health" THEN [status |-> 200, body |-> "OK", by |-> "return"]
     ELSE IF do = "unavailable" THEN [status |-> 503, body |-> "", by |-> "return"]
     ELSE IF do = "static"
          THEN (IF path \in BundleFiles THEN FileResponse(path)
                ELSE [status |-> 404, body |-> "", by |-> "static"])
     \* try_files $uri $uri/ /index.html, with index index.html for the root
     ELSE IF path \in BundleFiles THEN FileResponse(path)
     ELSE FileResponse(PathIndex)

gatewayFrame == <<chatVars, submitVars, appVars, streamVars>>

InitGateway ==
  /\ currentUser = FALSE
  /\ ChatPageUnmounted
  /\ AppSignedIn
  /\ StreamIdle
  /\ config \in Configs
  /\ backendUp \in BOOLEAN
  /\ relayUp \in BOOLEAN
  /\ uri = <<>>
  /\ response = NoResponse

\* a request arrives at the gateway and is answered
GatewayRequest(path) ==
  /\ uri' = path
  /\ response' = Serve(ServerBlock(config), path)
  /\ UNCHANGED <<config, backendUp, relayUp, gatewayFrame>>

\* the backend container stops or starts
BackendChange ==
  /\ backendUp' = ~backendUp
  /\ UNCHANGED <<config, relayUp, uri, response, gatewayFrame>>

\* the relay container stops or starts
RelayChange ==
  /\ relayUp' = ~relayUp
  /\ UNCHANGED <<config, backendUp, uri, response, gatewayFrame>>

NextGateway ==
  \/ \E path \in GatewayPaths : GatewayRequest(path)
  \/ BackendChange
  \/ RelayChange

SpecGateway == InitGateway /\ [][NextGateway]_vars

\* ------------------------------- getAiReplyStream with callbacks of any kind
\* A callback is a function that returns or throws: onChunk throws at its
\* onChunkThrowsAt-th call (0: never), onComplete and onError throw or not.
streamFrame == <<chatVars, submitVars, appVars, gatewayVars>>

InitStream ==
  /\ currentUser = FALSE
  /\ ChatPageUnmounted
  /\ AppSignedIn
  /\ GatewayIdle
  /\ callbacks \in [onChunkThrowsAt : 0..MaxReads, onCompleteThrows : BOOLEAN,
                    onErrorThrows : BOOLEAN]
  /\ call = [NoCall EXCEPT !.pc = "fetch"]

\* a catch block that reports nothing
CatchSilently(c) == [c EXCEPT !.pc = "returned"]

\* catch (error) { console.error(...); onError(error); }: when onError throws, the
\* promise of the call rejects
Catch(c) ==
  [c EXCEPT !.pc = "returned", !.onError = @ + 1, !.rejected = callbacks.onErrorThrows]

\* await fetch(url, ...) settles, and the two checks of the response
FetchSettles(outcome) ==
  /\ call.pc = "fetch"
  /\ call' = IF outcome = "ok" THEN [call EXCEPT !.pc = "read"] ELSE Catch(call)
  /\ UNCHANGED <<callbacks, streamFrame>>

\* reader.read() resolves with a value: decode it and call onChunk
ReadSettles(value) ==
  /\ call.pc = "read"
  /\ Len(call.delivered) < MaxReads
  /\ LET dec == DecodeStream(value, call.pend)
         called == [call EXCEPT !.pend = dec.pend, !.onChunk = @ + 1,
                                !.delivered = Append(@, dec.text),
                                !.onChunkAfterEnd =
                                   IF call.onComplete + call.onError > 0 THEN @ + 1 ELSE @]
     IN call' = IF callbacks.onChunkThrowsAt = called.onChunk THEN Catch(called)
                ELSE called
  /\ UNCHANGED <<callbacks, streamFrame>>

\* reader.read() resolves with done: leave the loop and call onComplete
ReadEnds ==
  /\ call.pc = "read"
  /\ LET called == [call EXCEPT !.onComplete = @ + 1]
     IN call' = IF callbacks.onCompleteThrows THEN Catch(called)
                ELSE [called EXCEPT !.pc = "returned"]
  /\ UNCHANGED <<callbacks, streamFrame>>

\* reader.read() rejects
ReadRejects ==
  /\ call.pc = "read"
  /\ call' = Catch(call)
  /\ UNCHANGED <<callbacks, streamFrame>>

NextStream ==
  \/ \E outcome \in {"ok", "reject", "notOk", "noBody"} : FetchSettles(outcome)
  \/ \E value \in ReadValues : ReadSettles(value)
  \/ ReadEnds
  \/ ReadRejects

SpecStream == InitStream /\ [][NextStream]_vars

TypeOK ==
  /\ currentUser \in BOOLEAN
  /\ isLoading \in BOOLEAN
  /\ currentConversationId \in 0..MaxConvs
  /\ Len(turns) <= MaxTurns

\* ------------------------------------------------------------- properties
Turns == 1..Len(turns)

HasPlaceholder(t) == \E i \in 1..Len(messages) : messages[i].id = TempAiId(t)

\* C1: when the stream of a turn completed and the assistant write succeeded, the
\* content sent to (and stored by) the backend with sender 'ai' is the
\* concatenation, in arrival order, of the fragments handed to onChunk.
C1_StoredEqualsStreamed ==
  \A t \in Turns :
    turns[t].aiWrite = "ok" =>
      /\ turns[t].finalAiContent = Concat(turns[t].delivered)
      /\ db[turns[t].aiMsgId].content = Concat(turns[t].delivered)
      /\ db[turns[t].aiMsgId].sender = "ai"

C1_Witness ==
  \E t \in Turns :
    /\ turns[t].aiWrite = "ok"
    /\ Len(turns[t].delivered) = 2
    /\ turns[t].delivered[1] # turns[t].delivered[2]
    /\ db[turns[t].aiMsgId].content = <<ByteA, CharEAcute>>

\* C2: every completed stream (onComplete invoked) leads to exactly one
\* message-create request with sender 'ai', whatever the fragments and whatever
\* happened in the page meanwhile.
C2_CompleteIssuesOneAiWrite ==
  \A t \in Turns : turns[t].onComplete > 0 => turns[t].aiRequests = 1

\* C3: a stream that failed (at the fetch, at the status check or at a read, after
\* any number of fragments) has called onError once, never onComplete, and no
\* message-create request with sender 'ai' exists for its turn.
C3_FailedStreamNotPersisted ==
  \A t \in Turns :
    turns[t].streamFailed =>
      /\ turns[t].onError = 1
      /\ turns[t].onComplete = 0
      /\ turns[t].aiRequests = 0
      /\ turns[t].aiMsgId = 0
      /\ turns[t].pc = "error"

C3_Witness ==
  \E t \in Turns :
    /\ turns[t].streamFailed
    /\ Len(turns[t].delivered) >= 1
    /\ Concat(turns[t].delivered) # <<>>

PlaceholderIn(ms, t) == \E i \in 1..Len(ms) : ms[i].id = TempAiId(t)

UserEntries(ms) == SelectSeq(ms, LAMBDA m : m.sender = "user")

\* C5: the step in which the stream of a turn errors takes the turn's placeholder
\* off the list, sets the stream-error text and leaves the user's messages, the
\* one of this turn included, in the list.
C5_StreamErrorKeepsUserMessage ==
  [][\A t \in Turns :
       (turns[t].onError = 0 /\ turns'[t].onError = 1) =>
         /\ ~PlaceholderIn(messages', t)
         /\ error' = ErrStream
         /\ error' # ""
         /\ UserEntries(messages') = UserEntries(messages)]_vars

C5_Witness ==
  \E t \in Turns :
    /\ turns[t].onError = 1
    /\ turns[t].delivered # <<>>
    /\ error = ErrStream
    /\ ~HasPlaceholder(t)
    /\ \E i \in 1..Len(messages) :
         /\ messages[i].id = DbId(turns[t].userMsgId)
         /\ messages[i].sender = "user"
         /\ messages[i].content = turns[t].content

\* C6: the step in which the assistant write of a completed stream fails leaves
\* the list as it is (the reply, if shown, complete and no longer streaming),
\* sets the save-error text, which differs from the stream-error text, and sets
\* isLoading to false.
C6_SaveFailureKeepsReply ==
  [][\A t \in Turns :
       (turns[t].aiWrite = "pending" /\ turns'[t].aiWrite = "failed") =>
         /\ messages' = messages
         /\ error' = ErrSaveAi
         /\ ErrSaveAi # ErrStream
         /\ isLoading' = FALSE
         /\ PlaceholderIn(messages', t) =>
              \A i \in 1..Len(messages') :
                messages'[i].id = TempAiId(t) =>
                  /\ messages'[i].content = Concat(turns[t].delivered)
                  /\ ~messages'[i].isStreaming]_vars

C6_Witness ==
  \E t \in Turns :
    /\ turns[t].aiWrite = "failed"
    /\ error = ErrSaveAi
    /\ ~isLoading
    /\ \E i \in 1..Len(messages) :
         /\ messages[i].id = TempAiId(t)
         /\ messages[i].content = Concat(turns[t].delivered)
         /\ messages[i].content # <<>>
         /\ ~messages[i].isStreaming

\* getAiReplyStream of turn t has been called and has not returned
StreamOpen(t) == turns[t].pc \in {"fetch", "read"}

\* C7 as stated: never two open relay calls for the same conversation.
C7_OneStreamPerConversation ==
  \A t1, t2 \in Turns :
    (t1 # t2 /\ StreamOpen(t1) /\ StreamOpen(t2)) => turns[t1].conv # turns[t2].conv

\* C7 amended: two turns are in progress together (and so two relay calls open
\* together) only after a message-list fetch finished while a turn was in
\* progress, which sets isLoading to false and enables the form again.
C7_OneStreamUnlessRefetch ==
  (\E t1, t2 \in Turns : t1 # t2 /\ InProgress(turns[t1]) /\ InProgress(turns[t2]))
    => \E t \in Turns : turns[t].reenabled

C7_Witness ==
  \E t1, t2 \in Turns :
    /\ t1 # t2
    /\ StreamOpen(t1)
    /\ StreamOpen(t2)
    /\ turns[t1].conv = turns[t2].conv
    /\ turns[t1].reenabled

\* the ids the messages table holds for conversation c when every turn stored its
\* user message and then its assistant message, turn after turn
RECURSIVE ExpectedIds(_, _)
ExpectedIds(c, t) ==
  IF t = 0 THEN <<>>
  ELSE ExpectedIds(c, t - 1) \o
       (IF turns[t].conv = c THEN <<DbId(turns[t].userMsgId), DbId(turns[t].aiMsgId)>>
        ELSE <<>>)

AllTurnsDone == Turns # {} /\ \A t \in Turns : turns[t].pc = "done"

\* C8: with no failure, once the turns are over the messages of every conversation
\* were stored in the order user 1, assistant 1, user 2, assistant 2, ...
C8_PersistOrderIsTurnOrder ==
  (faults = 0 /\ AllTurnsDone) =>
    \A c \in ConvIds :
      [i \in 1..Len(ConversationMessages(c)) |-> ConversationMessages(c)[i].id]
        = ExpectedIds(c, Len(turns))

\* C9: the relay is called only once the user's message is stored, the assistant
\* write is issued only once the stream has completed, and the assistant message
\* is stored after, and stamped later than, the user message of its turn.
C9_UserThenStreamThenAi ==
  \A t \in Turns :
    /\ turns[t].pc \in {"fetch", "read", "sendAi", "done", "error"} =>
         /\ turns[t].userMsgId \in 1..Len(db)
         /\ db[turns[t].userMsgId].sender = "user"
    /\ turns[t].aiRequests > 0 => turns[t].onComplete = 1
    /\ turns[t].aiMsgId # 0 =>
         /\ turns[t].userMsgId # 0
         /\ turns[t].userMsgId < turns[t].aiMsgId
         /\ db[turns[t].userMsgId].timestamp < db[turns[t].aiMsgId].timestamp
         /\ db[turns[t].aiMsgId].conversation_id = db[turns[t].userMsgId].conversation_id

C9_Witness ==
  \E t \in Turns :
    /\ turns[t].aiMsgId # 0
    /\ db[turns[t].aiMsgId].sender = "ai"
    /\ db[turns[t].userMsgId].timestamp < db[turns[t].aiMsgId].timestamp

Pairs(ms) == [i \in 1..Len(ms) |-> <<ms[i].sender, ms[i].content>>]

\* C10: after failure-free turns in the selected conversation, the list shown
\* equals, as (sender, content) pairs, the conversation reloaded from the backend
\* and sorted by timestamp.
C10_ShownEqualsReloaded ==
  (/\ faults = 0
   /\ AllTurnsDone
   /\ \A t \in Turns : turns[t].conv = currentConversationId
   /\ \A c \in ConvIds : pendingFetches[c] = 0)
    => Pairs(messages) = Pairs(SortByTimestamp(ConversationMessages(currentConversationId)))

\* C11: a turn issues one request to the relay (at the call of getAiReplyStream,
\* once the user's message is stored) and never a second one: a stream that
\* failed at the fetch or at a read has called onError once and its turn stays
\* with that single request; relay requests are never more than accepted sends.
C11_OneRelayRequestNoRetry ==
  /\ \A t \in Turns :
       /\ turns[t].relayRequests =
            (IF turns[t].pc \in {"sendUser", "userFailed"} THEN 0 ELSE 1)
       /\ turns[t].streamFailed =>
            /\ turns[t].onError = 1
            /\ turns[t].relayRequests = 1
            /\ turns[t].pc = "error"
  /\ SeqSum([t \in Turns |-> turns[t].relayRequests]) <= Len(turns)

C11_Witness ==
  \E t1, t2 \in Turns :
    /\ t1 < t2
    /\ turns[t1].streamFailed
    /\ turns[t1].onError = 1
    /\ turns[t1].relayRequests = 1
    /\ turns[t2].relayRequests = 1
    /\ turns[t2].pc = "done"

\* C12: a submit event handled while the text is empty or only whitespace, or no
\* conversation is selected, or there is no current user, starts no turn (so no
\* message-create and no relay request), starts no fetch, stores nothing, and
\* leaves the message list, the input text, isLoading and the error text as they
\* were.
C12_RejectedSubmitChangesNothing ==
  [][(submits' = submits + 1 /\ (\/ Trim(newMessage) = <<>>
                                 \/ currentConversationId = NoConv
                                 \/ ~currentUser)) =>
       /\ turns' = turns
       /\ pendingFetches' = pendingFetches
       /\ db' = db
       /\ messages' = messages
       /\ newMessage' = newMessage
       /\ isLoading' = isLoading
       /\ error' = error]_vars

C12_Witness ==
  /\ {"whitespace"} \in rejections
  /\ {"noUser"} \in rejections
  /\ \E why \in rejections : "noConversation" \in why
  /\ submits = 3
  /\ turns = <<>>

\* C13: the login request of the signup page carries the username and password
\* of the signup request it follows, and every protected request (current user,
\* conversation list) sent while App holds the token of that login carries that
\* token as its Bearer Authorization header, the token being in localStorage.
C13_SignupTokenInstalledBeforeUse ==
  /\ (handleSubmit.page = "signup" /\ handleSubmit.sentLogin # NoCredentials) =>
       handleSubmit.sentLogin = handleSubmit.sentSignup
  /\ \A r \in issued :
       r.from = "signup" =>
         /\ r.ls = r.tok
         /\ r.auth = SetAuthToken(r.tok)

\* the text the catch of the page computes from the error of the failed request
C14_ExpectedText ==
  IF handleSubmit'.detail # "" THEN handleSubmit'.detail
  ELSE IF handleSubmit.page = "login" THEN ErrLoginDefault
  ELSE ErrSignupDefault

\* C14 as stated: the step in which the login or signup request of a page fails
\* sets the error text shown to the detail string of the backend, or to the
\* default text of the page when the error carries none; it leaves localStorage
\* and the token of App as they were, does not call onLogin / onSignupSuccess and
\* does not navigate.
C14_FailedAuthShowsDetail ==
  [][(handleSubmit.pc \in {"signup", "login"} /\ handleSubmit'.outcome = "failed") =>
       /\ formError' = C14_ExpectedText
       /\ lsToken' = lsToken
       /\ token' = token
       /\ authHeader' = authHeader
       /\ ~handleSubmit'.calledBack
       /\ ~handleSubmit'.navigated
       /\ location' = location
       /\ handleSubmit'.pc = "idle"]_vars

\* C14 amended: the same, the error text being set only when the page that sent
\* the request is still the rendered one; after the user has left that page the
\* step changes no error text.
C14_FailedAuthShowsDetailWhileMounted ==
  [][(handleSubmit.pc \in {"signup", "login"} /\ handleSubmit'.outcome = "failed") =>
       /\ formError' = (IF handleSubmit.mounted THEN C14_ExpectedText ELSE formError)
       /\ handleSubmit.mounted => formError' # ""
       /\ lsToken' = lsToken
       /\ token' = token
       /\ authHeader' = authHeader
       /\ ~handleSubmit'.calledBack
       /\ ~handleSubmit'.navigated
       /\ location' = location
       /\ handleSubmit'.pc = "idle"]_vars

C14_Witness ==
  /\ handleSubmit.outcome = "failed"
  /\ handleSubmit.page = "login"
  /\ handleSubmit.mounted
  /\ handleSubmit.detail = DetailText
  /\ formError = DetailText
  /\ token = NoToken
  /\ lsToken = NoToken
  /\ location = "/login"

\* C15: a request under /api/v1/backend/ is answered by the backend through the
\* gateway, one under /api/v1/agent/ by the relay, and every other path but the
\* liveness path by the static bundle.
C15_RoutesByPrefix ==
  uri # <<>> =>
    IF IsPrefix(PathBackend, uri) THEN response.by = "backend"
    ELSE IF IsPrefix(PathAgent, uri) THEN response.by = "relay"
    ELSE ~IsPrefix(PathHealth, uri) => response.by = "static"

\* C16: in each configuration a request for /health is answered with status 200
\* and the body "OK", whether backend and relay are up or not.
C16_HealthAlwaysOk ==
  uri = PathHealth => (response.status = 200 /\ response.body = "OK")

C16_Witness ==
  /\ uri = PathHealth
  /\ config = "railway"
  /\ ~backendUp
  /\ ~relayUp
  /\ response.body = "OK"

\* C17: a relay response with a non-OK status, or without a body, ends the call
\* with no fragment read or handed to onChunk, onComplete not called and onError
\* called once; no message-create request with sender 'ai' is issued for the turn
\* and nothing is stored for it.
C17_BadResponseOnlyOnError ==
  \A t \in Turns :
    turns[t].failWhy \in {"notOk", "noBody"} =>
      /\ turns[t].reads = 0
      /\ turns[t].delivered = <<>>
      /\ turns[t].onComplete = 0
      /\ turns[t].onError = 1
      /\ turns[t].aiRequests = 0
      /\ turns[t].aiWrite = "none"
      /\ turns[t].aiMsgId = 0
      /\ \A i \in 1..Len(db) :
           ~(db[i].sender = "ai" /\ db[i].conversation_id = turns[t].conv
             /\ i > turns[t].userMsgId /\ \A u \in Turns : turns[u].aiMsgId # i)

C17_Witness ==
  \E t \in Turns :
    /\ turns[t].failWhy = "noBody"
    /\ turns[t].onError = 1
    /\ turns[t].onComplete = 0
    /\ error = ErrStream
    /\ ~HasPlaceholder(t)

\* C18 as stated: whatever the callbacks do, a call that has returned has invoked
\* exactly one of onComplete and onError, once, a call that has not returned has
\* invoked neither, and onChunk is never called after either.
C18_ExactlyOneEnd ==
  /\ call.onComplete + call.onError = (IF call.pc = "returned" THEN 1 ELSE 0)
  /\ call.onChunkAfterEnd = 0

\* C18 amended: the same for callbacks whose onComplete returns normally; when
\* onComplete throws, the catch invokes onError once after it, so both have been
\* invoked once.
C18_ExactlyOneEndUnlessCompleteThrows ==
  /\ call.pc # "returned" => (call.onComplete = 0 /\ call.onError = 0)
  /\ call.pc = "returned" =>
       IF callbacks.onCompleteThrows /\ call.onComplete = 1
       THEN call.onError = 1
       ELSE call.onComplete + call.onError = 1
  /\ call.onComplete <= 1
  /\ call.onError <= 1
  /\ call.onChunkAfterEnd = 0
  /\ call.onChunk = Len(call.delivered)

C18_Witness ==
  /\ call.pc = "returned"
  /\ callbacks.onChunkThrowsAt = 2
  /\ call.onChunk = 2
  /\ call.onError = 1
  /\ call.onComplete = 0
  /\ call.rejected

\* no request of the chat page is awaiting its response
Settled ==
  /\ \A t \in Turns : ~InProgress(turns[t])
  /\ \A c \in ConvIds : pendingFetches[c] = 0

C20_FailedUserWriteRetractsTurn ==
  [][\A t \in Turns :
       /\ (turns[t].pc = "sendUser" /\ turns'[t].pc = "userFailed") =>
            /\ \A i \in 1..Len(messages') :
                 messages'[i].id \notin {TempUserId(t), TempAiId(t)}
            /\ error' = ErrSend
            /\ error' # ""
            /\ ~isLoading'
            /\ turns'[t].relayRequests = 0
       /\ turns[t].pc = "userFailed" =>
            /\ turns'[t] = turns[t]
            /\ \A i \in 1..Len(messages') :
                 messages'[i].id \notin {TempUserId(t), TempAiId(t)}]_vars

C20_Witness ==
  \E t \in Turns :
    /\ turns[t].pc = "userFailed"
    /\ turns[t].relayRequests = 0
    /\ error = ErrSend
    /\ ~isLoading
    /\ Len(messages) > 0
    /\ \A i \in 1..Len(messages) :
         messages[i].id \notin {TempUserId(t), TempAiId(t)}

\* positions of the displayed list that hold an entry with this id
Positions(ms, id) == {i \in 1..Len(ms) : ms[i].id = id}

\* the assistant write of turn t resolves in this step
AiWriteResolves(t) == turns[t].pc = "sendAi" /\ turns'[t].aiWrite = "ok"

\* C21 as stated: when the assistant write of a turn succeeds (its user write and
\* its stream having succeeded before), the displayed list holds exactly one entry
\* for the user's message and exactly one for the reply, both with the backend's
\* ids, and none with a temporary id or marked isStreaming.
C21_BothEntriesPersisted ==
  [][\A t \in Turns :
       AiWriteResolves(t) =>
         /\ Cardinality(Positions(messages', DbId(turns'[t].userMsgId))) = 1
         /\ Cardinality(Positions(messages', DbId(turns'[t].aiMsgId))) = 1
         /\ Positions(messages', TempUserId(t)) = {}
         /\ Positions(messages', TempAiId(t)) = {}
         /\ \A i \in Positions(messages', DbId(turns'[t].aiMsgId)) :
              ~messages'[i].isStreaming]_vars

\* C21: once the assistant write of a turn has succeeded, the displayed list
\* holds no entry with a temporary id of that turn, at most one entry for its
\* user message and at most one for its reply, each equal to the backend's
\* record; when the placeholder is still displayed as the write resolves (the
\* list was not replaced since the send) it holds exactly one of each, the
\* reply right after the user's message, and the reply is not marked isStreaming.
C21_EntriesPersistedWhileDisplayed ==
  [][\A t \in Turns :
       /\ turns'[t].aiWrite = "ok" =>
            /\ Positions(messages', TempUserId(t)) = {}
            /\ Positions(messages', TempAiId(t)) = {}
            /\ \A id \in {turns'[t].userMsgId, turns'[t].aiMsgId} :
                 /\ Cardinality(Positions(messages', DbId(id))) <= 1
                 /\ \A i \in Positions(messages', DbId(id)) : messages'[i] = db'[id]
       /\ (AiWriteResolves(t) /\ Positions(messages, TempAiId(t)) # {}) =>
            \E i \in 1..Len(messages') :
              /\ Positions(messages', DbId(turns'[t].userMsgId)) = {i}
              /\ Positions(messages', DbId(turns'[t].aiMsgId)) = {i + 1}
              /\ ~messages'[i + 1].isStreaming
              /\ Len(messages') = Len(messages)]_vars

C21_Witness ==
  \E t \in Turns :
    /\ turns[t].aiWrite = "ok"
    /\ Positions(messages, DbId(turns[t].userMsgId)) # {}
    /\ Positions(messages, DbId(turns[t].aiMsgId)) # {}
    /\ \A i \in 1..Len(messages) : messages[i].id[1] = "db" /\ ~messages[i].isStreaming

\* handleSendMessage passes its guard in this step
SendAccepted == Len(turns') = Len(turns) + 1

\* C22: the step of an accepted send, which ends at the first await and so before
\* any response, clears the input and the error text, sets isLoading, and leaves
\* the displayed list as the previous list followed by the user's message (the
\* text as typed, in the selected conversation) and then an empty assistant
\* placeholder marked isStreaming; nothing is stored yet.
C22_OptimisticRender ==
  [][SendAccepted =>
       LET n == Len(messages)
           t == Len(turns')
       IN /\ newMessage' = <<>>
          /\ isLoading'
          /\ error' = ""
          /\ Len(messages') = n + 2
          /\ SubSeq(messages', 1, n) = messages
          /\ messages'[n + 1].id = TempUserId(t)
          /\ messages'[n + 1].sender = "user"
          /\ messages'[n + 1].content = newMessage
          /\ messages'[n + 1].conversation_id = currentConversationId
          /\ ~messages'[n + 1].isStreaming
          /\ messages'[n + 2].id = TempAiId(t)
          /\ messages'[n + 2].sender = "ai"
          /\ messages'[n + 2].content = <<>>
          /\ messages'[n + 2].isStreaming
          /\ turns'[t].pc = "sendUser"
          /\ turns'[t].relayRequests = 0
          /\ db' = db]_vars

C22_Witness ==
  \E t \in Turns :
    /\ turns[t].pc = "sendUser"
    /\ Len(messages) > 2
    /\ messages[Len(messages) - 1].id = TempUserId(t)
    /\ messages[Len(messages)].id = TempAiId(t)
    /\ messages[Len(messages)].isStreaming
    /\ messages[1].id[1] = "db"
    /\ newMessage = <<>>
    /\ isLoading
    /\ error = ""

\* C23: the assistant message stored for a turn belongs to the conversation that
\* was selected when the turn was sent, which is also the conversation of the
\* turn's stored user message, whatever conversation is selected when the
\* assistant write is issued or resolves; reloading that conversation returns
\* both messages, reloading another returns neither.
C23_ReplyStoredInConversationOfTurn ==
  \A t \in Turns :
    turns[t].aiMsgId # 0 =>
      LET user == db[turns[t].userMsgId]
          ai == db[turns[t].aiMsgId]
      IN /\ ai.sender = "ai"
         /\ ai.conversation_id = turns[t].conv
         /\ user.conversation_id = turns[t].conv
         /\ \A c \in ConvIds :
              (\E i \in 1..Len(ConversationMessages(c)) :
                 ConversationMessages(c)[i].id \in {user.id, ai.id})
                <=> c = turns[t].conv

C23_Witness ==
  \E t \in Turns :
    /\ turns[t].aiWrite = "ok"
    /\ currentConversationId # turns[t].conv
    /\ currentConversationId # NoConv
    /\ db[turns[t].aiMsgId].conversation_id = turns[t].conv
    /\ pendingFetches[currentConversationId] = 0

\* onChunk of turn t is called in this step
ChunkArrives(t) == turns'[t].reads = turns[t].reads + 1

\* C24: a fragment handed to onChunk of a turn is appended to the content of the
\* entry with that turn's placeholder id and changes nothing else: the list keeps
\* its length and order, every other entry (and every other field of the
\* placeholder) is as before, also when the placeholder is no longer in the list,
\* and the input, isLoading, the error text and the stored messages are untouched.
C24_ChunkChangesPlaceholderOnly ==
  [][\A t \in Turns :
       ChunkArrives(t) =>
         LET chunk == turns'[t].delivered[Len(turns'[t].delivered)]
         IN /\ Len(messages') = Len(messages)
            /\ \A i \in 1..Len(messages) :
                 IF messages[i].id = TempAiId(t)
                 THEN messages'[i] = [messages[i] EXCEPT !.content = @ \o chunk]
                 ELSE messages'[i] = messages[i]
            /\ UNCHANGED <<newMessage, isLoading, error, db, currentConversationId>>]_vars

\* a fragment has arrived for a turn whose placeholder is shown together with the
\* still empty placeholder of another turn and a persisted user message
C24_Witness ==
  \E t1, t2 \in Turns :
    /\ t1 # t2
    /\ turns[t1].reads > 0
    /\ turns[t1].pc = "read"
    /\ HasPlaceholder(t1)
    /\ HasPlaceholder(t2)
    /\ PlaceholderContent(messages, t1) = Concat(turns[t1].delivered)
    /\ PlaceholderContent(messages, t1) # <<>>
    /\ PlaceholderContent(messages, t2) = <<>>
    /\ Positions(messages, DbId(turns[t1].userMsgId)) # {}

\* C25: when no fetchMessages call is awaiting its response and none has failed,
\* the displayed list is the stored list of the selected conversation.
C25_ListIsOfSelectedConversation ==
  (/\ \A c \in ConvIds : pendingFetches[c] = 0
   /\ faults = 0
   /\ currentConversationId # NoConv)
    => messages = SortByTimestamp(ConversationMessages(currentConversationId))

\* C26: in every state of App, a null token goes with a null currentUser.
C26_NoUserWithoutToken == token = NoToken => ~currentUser

\* C27: between the handlers of App (the initial load, handleLogin, handleLogout,
\* the catch of the fetchUser effect) the token in localStorage equals the token
\* in App state, and while there is no token (after a logout or a failed
\* current-user fetch, or with nothing stored at the start) the API client
\* carries no Authorization header; a header it carries is that of the token.
C27_StoredTokenIsStateToken ==
  /\ lsToken = token
  /\ token = NoToken => authHeader = NoHeader
  /\ authHeader # NoHeader => authHeader = SetAuthToken(token)

\* a logout after a login of this session
C27_Witness ==
  /\ handleSubmit.outcome = "ok"
  /\ handleSubmit.calledBack
  /\ token = NoToken
  /\ lsToken = NoToken
  /\ authHeader = NoHeader
  /\ tokenFrom = "none"
  /\ userFetch = {}

\* a getCurrentUser request is answered with a failure in this step
CurrentUserFetchFails ==
  /\ userFetch' # userFetch
  /\ userFetch' \subseteq userFetch
  /\ ~currentUser'

\* C28: the step in which a current-user request fails removes the token from
\* localStorage, clears the Authorization header, sets token and currentUser to
\* null and loading to false; App then renders its routes, where every protected
\* path leads to /login (a <Navigate> when the location is a protected one) and
\* the login and signup pages are shown.  A request sent with a token the
\* backend does not accept can only fail.
C28_FailedUserFetchSignsOut ==
  [][/\ CurrentUserFetchFails =>
          /\ lsToken' = NoToken
          /\ authHeader' = NoHeader
          /\ token' = NoToken
          /\ ~currentUser'
          /\ ~loading'
          /\ \A path \in ProtectedPaths : RouteTarget(path, token') = "/login"
          /\ Page' = (IF location \in ProtectedPaths THEN "redirect" ELSE location)
          /\ location' = location
     /\ \A r \in userFetch :
          (r.tok = ExpiredToken /\ r \notin userFetch') => CurrentUserFetchFails]_vars

\* the stored token was not accepted and the chat route now shows its <Navigate>
C28_Witness ==
  /\ issued = {Request("me", SetAuthToken(ExpiredToken), ExpiredToken, ExpiredToken,
                       "storage")}
  /\ userFetch = {}
  /\ token = NoToken
  /\ lsToken = NoToken
  /\ authHeader = NoHeader
  /\ ~currentUser
  /\ ~loading
  /\ location = "/chat"
  /\ Page = "redirect"

\* C29: whenever App renders a page of its routes, the chat and history pages are
\* shown only with a token and the login and signup pages only without one; at a
\* location whose page the token does not allow, App renders the <Navigate> to
\* /login (no token) or to /chat (token), and following it arrives at a page.
C29_PagesMatchToken ==
  /\ Page \in ProtectedPaths => token # NoToken
  /\ Page \in {"/login", "/signup"} => token = NoToken
  /\ Page = "redirect" =>
       /\ RouteTarget(location, token) = (IF token = NoToken THEN "/login" ELSE "/chat")
       /\ RouteTarget(RouteTarget(location, token), token) = RouteTarget(location, token)
  /\ Page \in Paths \cup {"loading", "redirect"}

\* the login route asked for while a token is held
C29_Witness ==
  /\ Page = "redirect"
  /\ location \in {"/login", "/signup"}
  /\ token # NoToken
  /\ RouteTarget(location, token) = "/chat"

====
